---- MODULE Spec2Model ----
(***************************************************************************)
(* OSPay payment lifecycle engine: orders, verification queue and workers, *)
(* inline fallback, refunds, settlement and timeout sweepers, the ledger   *)
(* and the dedupe cache, as implemented in pkg/api and pkg/blockchain.     *)
(*                                                                         *)
(* The database is SQLite in WAL mode (pkg/db Open): writers are           *)
(* serialized, a statement outside a transaction sees the current state,   *)
(* and a transaction that has read a snapshot fails its first write when   *)
(* another connection committed a write after that snapshot was taken.     *)
(* Time is counted in ticks of the resolution of the RFC3339 timestamps.   *)
(***************************************************************************)
EXTENDS Integers, Sequences, FiniteSets, TLC

\* ---------------------------------------------------------------- bounds
MaxTime == 1
MaxOrders == 2
MaxHandlers == 2
MaxRequests == 4
NumWorkers == 1
QueueCap == 1
SettlementDelay == 1
OrderTimeout == 1
DedupeWindow == 1
MaxLogs == 2
apiVerifySemCap == 2
rpcVerifySemCap == 1
\* the largest value of an int64, in the unit of the amounts below
MaxInt64 == 2

\* ------------------------------------------------------ program constants
\* seconds: context.WithTimeout of the RPC call, of a worker job and of the
\* inline handler
RpcTimeout == 10
JobTimeout == 5
ReqTimeout == 3
bucketMerchant == "merchant"
bucketClearing == "clearing"
dirDebit == "debit"
dirCredit == "credit"
eventPaymentConfirmed == "PAYMENT_CONFIRMED"
refundEvent == "REFUND"
BSC_USD_ADDRESS == "0x55d398326f99059fF775485246999027B3197955"
transferSig == "Transfer(address,address,uint256)"

NULL == "NULL"
NullTime == -1

\* ----------------------------------------------------------- input sets
OrderIds == 1..MaxOrders
Slots == 1..MaxHandlers
Workers == 1..NumWorkers
MerchantIds == {"m1", "m2"}
RefundKeys == {"r1", "r2"}
TxHashes == {"0xa1", "0xb2"}
\* the same transaction as "0xa1", written with an upper-case hex digit
MoreTxHashes == {"0xA1"}
\* an optional JSON field: <<>> when absent, <<v>> when present
OptAmounts == {<<>>, <<-1>>, <<0>>, <<1>>, <<2>>}
\* bodies of POST /orders
CreateOrderReqs ==
  { [merchant_id |-> "m1", amount_minor |-> 1, asset |-> "USDT", chain |-> "BSC", idempotency_key |-> "k1"],
    [merchant_id |-> "m1", amount_minor |-> 2, asset |-> "ETH", chain |-> "BSC", idempotency_key |-> "k2"] }
\* more bodies of POST /orders: a twin of the first order, another chain,
\* another merchant, an unknown merchant, a bad amount
MoreCreateOrderReqs ==
  { [merchant_id |-> "m1", amount_minor |-> 1, asset |-> "USDT", chain |-> "BSC", idempotency_key |-> "k2"],
    [merchant_id |-> "m1", amount_minor |-> 2, asset |-> "usdt", chain |-> "POLYGON", idempotency_key |-> "k2"],
    [merchant_id |-> "m2", amount_minor |-> 1, asset |-> "USDT", chain |-> "BSC", idempotency_key |-> "k1"],
    [merchant_id |-> "m2", amount_minor |-> 2, asset |-> "ETH", chain |-> "BSC", idempotency_key |-> "k2"],
    [merchant_id |-> "m0", amount_minor |-> 1, asset |-> "USDT", chain |-> "BSC", idempotency_key |-> "k1"],
    [merchant_id |-> "m1", amount_minor |-> 0, asset |-> "USDT", chain |-> "BSC", idempotency_key |-> "k1"] }

\* merchants table (read-only for the engine): id -> merchant_wallet_address
merchants == [m \in MerchantIds |-> IF m = "m1" THEN "w1" ELSE "w2"]

\* strings.ToLower / common.HexToHash on the transaction identifiers used
ToLower(s) == IF s = "0xA1" THEN "0xa1" ELSE s

ToUpper(s) == IF s = "usdt" THEN "USDT" ELSE s

\* common.HexToAddress on the wallet addresses used: the address a hex
\* string denotes, whatever the case of its digits
HexToAddress(s) == IF s = "W1" THEN "w1" ELSE s

approvalSig == "Approval(address,address,uint256)"

\* a receipt log: emitting contract, topics (signature hash first) and data
Log(address, topics, data) == [address |-> address, topics |-> topics, data |-> data]

\* the chain: receipt logs by transaction hash
Receipts ==
  [h \in {"0xa1", "0xb2", "0xc3", "0xd4"} |->
     IF h = "0xa1"
     THEN << Log("0xother", << transferSig, "payer", "w1" >>, 2),
             Log(HexToAddress(BSC_USD_ADDRESS), << transferSig, "payer", "w1" >>, 1) >>
     ELSE IF h = "0xb2"
     THEN << Log(HexToAddress(BSC_USD_ADDRESS), << transferSig, "payer", "w1" >>, 2) >>
     ELSE IF h = "0xd4"
     THEN << Log(HexToAddress(BSC_USD_ADDRESS), << transferSig, "payer", "w1" >>, 1) >>
     ELSE << Log(HexToAddress(BSC_USD_ADDRESS), << transferSig, "payer", "w1" >>, MaxInt64 + 1) >>]

\* the loop of VerifyBSCUSDTransfer over receipt.Logs, from log i on: the
\* first log of the token contract with three topics, the Transfer
\* signature, the destination and exactly the expected amount ends it
RECURSIVE MatchFrom(_, _, _, _)
MatchFrom(logs, i, destAddr, expectedAmount) ==
  IF i > Len(logs) THEN FALSE
  ELSE LET vLog == logs[i] IN
       IF /\ vLog.address = HexToAddress(BSC_USD_ADDRESS)
          /\ Len(vLog.topics) = 3
          /\ vLog.topics[1] = transferSig
          /\ HexToAddress(vLog.topics[3]) = destAddr
          /\ vLog.data = expectedAmount
       THEN TRUE
       ELSE MatchFrom(logs, i + 1, destAddr, expectedAmount)

\* a verifier with a tolerance of one unit on the amount
VerifyReceiptTolerant(logs, destAddress, expectedAmount) ==
  \/ MatchFrom(logs, 1, HexToAddress(destAddress), expectedAmount)
  \/ MatchFrom(logs, 1, HexToAddress(destAddress), expectedAmount - 1)

\* VerifyBSCUSDTransfer once the receipt is there
VerifyReceipt(logs, destAddress, expectedAmount) ==
  MatchFrom(logs, 1, HexToAddress(destAddress), expectedAmount)

\* VerifyBSCUSDTransfer: TRUE iff one log of the receipt matches; rpcOk is
\* FALSE when the RPC call fails (transient error)
VerifyBSCUSDTransfer(txHash, destAddress, expectedAmount, rpcOk) ==
  /\ rpcOk
  /\ ToLower(txHash) \in DOMAIN Receipts
  /\ VerifyReceipt(Receipts[ToLower(txHash)], destAddress, expectedAmount)

\* isValidAmountString on decimal amounts: non-empty, not "0", digits only
isValidAmountString(a) == a \in Nat /\ a # 0

\* rows.Scan of a decimal TEXT value into an int64 succeeds
FitsInt64(a) == a <= MaxInt64 /\ 0 - MaxInt64 - 1 <= a

VARIABLES
  now,                    \* wall clock
  orders,                 \* orders table: id -> row
  ledger,                 \* ledger_entries table: set of rows
  dbVersion,              \* number of committed writes (WAL position)
  verifyJobs,             \* buffered channel of verification jobs
  verifySem,              \* the two semaphore channels: sends not yet received
  workers,                \* verification workers: position and locals
  handlers,               \* HTTP handlers in flight: position and locals
  recentTx,               \* dedupe cache: lowercased tx hash -> time
  paymentsDetectedTotal,
  ordersCreatedTotal,
  refundsProcessedTotal,
  settler,                \* settlement scheduler: candidate ids of the sweep
  expirer,                \* timeout scheduler: candidate ids of the sweep
  lastResp,               \* the HTTP response written by the last step, if any
  nreq                    \* HTTP requests received so far

vars == << now, orders, ledger, dbVersion, verifyJobs, verifySem, workers, handlers, recentTx,
           paymentsDetectedTotal, ordersCreatedTotal, refundsProcessedTotal,
           settler, expirer, lastResp, nreq >>

Idle == [pc |-> "idle"]
NoResp == [op |-> "none"]
NoSweep == [pc |-> "wait", ids |-> {}]

Init ==
  /\ now = 0
  /\ orders = << >>
  /\ ledger = {}
  /\ dbVersion = 0
  /\ verifyJobs = << >>
  /\ verifySem = [api |-> 0, rpc |-> 0]
  /\ workers = [w \in Workers |-> Idle]
  /\ handlers = [h \in Slots |-> Idle]
  /\ recentTx = << >>
  /\ paymentsDetectedTotal = 0
  /\ ordersCreatedTotal = 0
  /\ refundsProcessedTotal = 0
  /\ settler = NoSweep
  /\ expirer = NoSweep
  /\ lastResp = NoResp
  /\ nreq = 0

dbVars == << orders, ledger, dbVersion >>
counters == << paymentsDetectedTotal, ordersCreatedTotal, refundsProcessedTotal >>
sweeps == << settler, expirer >>
ErrResp(opName, httpCode, err) == [op |-> opName, code |-> httpCode, error |-> err]

\* a new request is served by the first free handler slot
FreeSlot(h) == handlers[h].pc = "idle" /\ \A g \in Slots : g < h => handlers[g].pc # "idle"

\* the arrival of one more HTTP request
Accept == nreq < MaxRequests /\ nreq' = nreq + 1

Tick ==
  /\ now < MaxTime
  /\ now' = now + 1
  /\ lastResp' = NoResp
  /\ UNCHANGED << verifySem, nreq, dbVars, verifyJobs, workers, handlers, recentTx, counters, sweeps >>

\* ------------------------------------------------------------ CreateOrder
\* SELECT id, deposit_address, status FROM orders
\*   WHERE order_idempotency_key = ? AND merchant_id = ?
SelByKey(key, merchant) ==
  {o \in DOMAIN orders : orders[o].order_idempotency_key = key /\ orders[o].merchant_id = merchant}

\* the response body, with the request's (merchant_id, idempotency_key) and
\* the place of the handler that wrote it: "inserted", "lookup" or "constraint"
orderCreateResp(o, dep, st, rq, path) ==
  [op |-> "create", code |-> 200, order_id |-> o, deposit_address |-> dep, status |-> st,
   merchant_id |-> rq.merchant_id, key |-> rq.idempotency_key, path |-> path]

ExistingResp(rq, path) ==
  LET o == CHOOSE x \in SelByKey(rq.idempotency_key, rq.merchant_id) : TRUE
  IN orderCreateResp(o, orders[o].deposit_address, orders[o].status, rq, path)

\* first part of CreateOrderHandler: validation and the lookup by key
CreateOrderLookup(h, req) ==
  /\ FreeSlot(h)
  /\ Accept
  /\ IF ~isValidAmountString(req.amount_minor)
     THEN /\ lastResp' = ErrResp("create", 400, "missing_fields")
          /\ UNCHANGED handlers
     ELSE IF SelByKey(req.idempotency_key, req.merchant_id) # {}
     THEN /\ lastResp' = ExistingResp(req, "lookup")
          /\ UNCHANGED handlers
     ELSE /\ handlers' = [handlers EXCEPT ![h] = [pc |-> "c_insert", req |-> req]]
          /\ lastResp' = NoResp
  /\ UNCHANGED << verifySem, now, dbVars, verifyJobs, workers, recentTx, counters, sweeps >>

\* the orders table without the UNIQUE constraint on order_idempotency_key
OrderKeyNotUnique(key) == FALSE

\* orders.order_idempotency_key TEXT UNIQUE
OrderKeyTaken(key) == \E o \in DOMAIN orders : orders[o].order_idempotency_key = key

\* uuid.New(): an identifier no order carries
NewOrderId == CHOOSE o \in OrderIds : o \notin DOMAIN orders /\ \A p \in OrderIds : p < o => p \in DOMAIN orders

\* second part of CreateOrderHandler: merchant lookup and insert; after a
\* successful insert the handler reads ordersCreatedTotal for its increment
CreateOrderInsert(h) ==
  LET rq == handlers[h].req IN
  /\ handlers[h].pc = "c_insert"
  /\ IF rq.merchant_id \notin DOMAIN merchants
     THEN /\ lastResp' = ErrResp("create", 400, "merchant_not_found")
          /\ handlers' = [handlers EXCEPT ![h] = Idle]
          /\ UNCHANGED << orders, dbVersion >>
     ELSE IF OrderKeyTaken(rq.idempotency_key)
     THEN \* UNIQUE constraint failed: fetch and return the existing order
          /\ lastResp' = IF SelByKey(rq.idempotency_key, rq.merchant_id) # {}
                         THEN ExistingResp(rq, "constraint")
                         ELSE ErrResp("create", 500, "db_error")
          /\ handlers' = [handlers EXCEPT ![h] = Idle]
          /\ UNCHANGED << orders, dbVersion >>
     ELSE /\ DOMAIN orders # OrderIds
          /\ orders' = orders @@ (NewOrderId :>
                 [merchant_id |-> rq.merchant_id, amount_minor |-> rq.amount_minor,
                  asset |-> rq.asset, chain |-> rq.chain, status |-> "PENDING",
                  deposit_address |-> merchants[rq.merchant_id],
                  order_idempotency_key |-> rq.idempotency_key, refund_idempotency_key |-> NULL,
                  tx_hash |-> NULL, paid_at |-> NullTime, created_at |-> now])
          /\ dbVersion' = dbVersion + 1
          /\ handlers' = [handlers EXCEPT ![h] =
                 [pc |-> "c_count", tmp |-> ordersCreatedTotal,
                  resp |-> orderCreateResp(NewOrderId, merchants[rq.merchant_id], "PENDING", rq, "inserted")]]
          /\ lastResp' = NoResp
  /\ UNCHANGED << verifySem, nreq, now, ledger, verifyJobs, workers, recentTx, counters, sweeps >>

\* ordersCreatedTotal++ and refundsProcessedTotal++ are plain increments of
\* a shared variable: the value stored is the value read earlier plus one
PlainCount(current, tmp) == tmp + 1

\* end of CreateOrderHandler: the store of ordersCreatedTotal++ and the response
CreateOrderCount(h) ==
  /\ handlers[h].pc = "c_count"
  /\ ordersCreatedTotal' = PlainCount(ordersCreatedTotal, handlers[h].tmp)
  /\ lastResp' = handlers[h].resp
  /\ handlers' = [handlers EXCEPT ![h] = Idle]
  /\ UNCHANGED << verifySem, nreq, now, dbVars, verifyJobs, workers, recentTx,
                  paymentsDetectedTotal, refundsProcessedTotal, sweeps >>

\* ------------------------------------------------------- schema constraints
\* CREATE UNIQUE INDEX idx_orders_txhash_notnull ON orders(tx_hash) WHERE tx_hash IS NOT NULL
TxHashTaken(ords, o, tx) == \E p \in DOMAIN ords : p # o /\ ords[p].tx_hash = tx

\* orders.refund_idempotency_key TEXT UNIQUE
RefundKeyTaken(ords, o, key) == \E p \in DOMAIN ords : p # o /\ ords[p].refund_idempotency_key = key

\* ledger_entries.id TEXT PRIMARY KEY and
\* CREATE UNIQUE INDEX idx_ledger_unique_event ON ledger_entries(order_id, event_type, bucket)
LedgerInsertOk(led, e) ==
  /\ \A x \in led : x.id # e.id
  /\ \A x \in led : ~(x.order_id = e.order_id /\ x.event_type = e.event_type /\ x.bucket = e.bucket)

LedgerRow(lid, o, m, asset, amt, bucket, dir, event, tx, t) ==
  [id |-> lid, order_id |-> o, merchant_id |-> m, asset |-> asset, amount_minor |-> amt,
   bucket |-> bucket, direction |-> dir, event_type |-> event, tx_hash |-> tx, created_at |-> t]

\* "led_" + now + "_a", "led_" + now + "_b"
PaymentLedgerId(t, suffix) == << "led", t, suffix >>
\* "led_" + now + "_refund_a_" + orderID
RefundLedgerId(t, suffix, o) == << "led", t, suffix, o >>

\* UPDATE orders SET status='PAID', tx_hash=?, paid_at=?
\*   WHERE id=? AND (status='PENDING' OR status='CONFIRMING'): the rows it matches
PaidUpdateRows(ords, o) ==
  IF o \in DOMAIN ords /\ ords[o].status \in {"PENDING", "CONFIRMING"} THEN 1 ELSE 0

\* the transaction with an unconditional UPDATE ... WHERE id=? and a ledger
\* without idx_ledger_unique_event
PaymentTxUnguarded(ords, led, o, tx, m, asset, amt, t) ==
  LET e1 == LedgerRow(PaymentLedgerId(t, "a"), o, m, asset, amt, bucketMerchant, dirCredit,
                      eventPaymentConfirmed, tx, t)
      e2 == LedgerRow(PaymentLedgerId(t, "b"), o, m, asset, amt, bucketClearing, dirDebit,
                      eventPaymentConfirmed, tx, t)
  IN IF o \notin DOMAIN ords
     THEN [outcome |-> "noop", orders |-> ords, ledger |-> led]
     ELSE IF TxHashTaken(ords, o, tx) \/ \E x \in led : x.id \in {e1.id, e2.id}
     THEN [outcome |-> "error", orders |-> ords, ledger |-> led]
     ELSE [outcome |-> "applied",
           orders |-> [ords EXCEPT ![o].status = "PAID", ![o].tx_hash = tx, ![o].paid_at = t],
           ledger |-> led \cup {e1, e2}]

\* The PAYMENT_CONFIRMED transaction shared by the worker and the inline path:
\* guarded update, then the two ledger inserts. The result is the database
\* after commit, or the unchanged database with the reason it did not apply.
PaymentTx(ords, led, o, tx, m, asset, amt, t) ==
  LET e1 == LedgerRow(PaymentLedgerId(t, "a"), o, m, asset, amt, bucketMerchant, dirCredit,
                      eventPaymentConfirmed, tx, t)
      e2 == LedgerRow(PaymentLedgerId(t, "b"), o, m, asset, amt, bucketClearing, dirDebit,
                      eventPaymentConfirmed, tx, t)
  IN IF PaidUpdateRows(ords, o) = 0
     THEN [outcome |-> "noop", orders |-> ords, ledger |-> led]
     ELSE IF TxHashTaken(ords, o, tx)
     THEN [outcome |-> "error", orders |-> ords, ledger |-> led]
     ELSE IF ~LedgerInsertOk(led, e1) \/ ~LedgerInsertOk(led \cup {e1}, e2)
     THEN [outcome |-> "error", orders |-> ords, ledger |-> led]
     ELSE [outcome |-> "applied",
           orders |-> [ords EXCEPT ![o].status = "PAID", ![o].tx_hash = tx, ![o].paid_at = t],
           ledger |-> led \cup {e1, e2}]

\* recentTx[strings.ToLower(txHash)] = time.Now()
Remember(cache, tx, t) ==
  [k \in DOMAIN cache \cup {ToLower(tx)} |-> IF k = ToLower(tx) THEN t ELSE cache[k]]

\* ------------------------------------------------- verification workers
\* a worker receives a job and loads the order and the merchant wallet
WorkerLoad(w) ==
  /\ workers[w].pc = "idle"
  /\ verifyJobs # << >>
  /\ LET job == Head(verifyJobs) IN
       /\ verifyJobs' = Tail(verifyJobs)
       /\ workers' = [workers EXCEPT ![w] =
            IF job.OrderID \notin DOMAIN orders THEN Idle
            ELSE LET row == orders[job.OrderID] IN
              IF row.status \in {"PAID", "SETTLED", "REFUNDED"} THEN Idle
              ELSE IF row.merchant_id \notin DOMAIN merchants THEN Idle
              ELSE [pc |-> IF ToUpper(row.asset) = "USDT" /\ ToUpper(row.chain) = "BSC"
                           THEN "verify" ELSE "tx",
                    job |-> job, merchantID |-> row.merchant_id, amountMinor |-> row.amount_minor,
                    asset |-> row.asset, merchantWalletAddress |-> merchants[row.merchant_id]]]
  /\ lastResp' = NoResp
  /\ UNCHANGED << verifySem, nreq, now, dbVars, handlers, recentTx, counters, sweeps >>

\* a worker that goes on to its transaction whatever the verifier returned
WorkerVerifyLenient(w, rpcOk) ==
  /\ workers[w].pc = "verify"
  /\ workers' = [workers EXCEPT ![w].pc = "tx"]
  /\ lastResp' = NoResp
  /\ UNCHANGED << verifySem, nreq, now, dbVars, verifyJobs, handlers, recentTx, counters, sweeps >>

\* the on-chain check of the job; a failed check drops the job
WorkerVerify(w, rpcOk) ==
  LET st == workers[w] IN
  /\ st.pc = "verify"
  /\ workers' = [workers EXCEPT ![w] =
       IF VerifyBSCUSDTransfer(st.job.TxHash, st.merchantWalletAddress, st.amountMinor, rpcOk)
       THEN [st EXCEPT !.pc = "tx"] ELSE Idle]
  /\ lastResp' = NoResp
  /\ UNCHANGED << verifySem, nreq, now, dbVars, verifyJobs, handlers, recentTx, counters, sweeps >>

\* the worker's transaction, then the dedupe cache and the counter
WorkerTx(w, dbOk) ==
  LET st == workers[w]
      r == PaymentTx(orders, ledger, st.job.OrderID, st.job.TxHash, st.merchantID, st.asset,
                     st.amountMinor, now)
  IN
  /\ st.pc = "tx"
  /\ workers' = [workers EXCEPT ![w] = Idle]
  /\ IF dbOk /\ r.outcome = "applied"
     THEN /\ orders' = r.orders
          /\ ledger' = r.ledger
          /\ dbVersion' = dbVersion + 1
          /\ recentTx' = Remember(recentTx, st.job.TxHash, now)
          /\ paymentsDetectedTotal' = paymentsDetectedTotal + 1
     ELSE UNCHANGED << dbVars, recentTx, paymentsDetectedTotal >>
  /\ lastResp' = NoResp
  /\ UNCHANGED << verifySem, nreq, now, verifyJobs, handlers, ordersCreatedTotal, refundsProcessedTotal, sweeps >>

\* --------------------------------------------------- PaymentDetectedHandler
\* a channel without capacity limit: the send always succeeds
QueueAlwaysRoom(q) == TRUE

\* select { case verifyJobs <- job: ... default: }: the send succeeds iff the
\* buffered channel is not full
QueueHasRoom(q) == Len(q) < QueueCap

paymentDetectedResp(o, httpCode, st, msg) ==
  [op |-> "payment", code |-> httpCode, order_id |-> o, status |-> st, message |-> msg]

\* the handler up to the first blocking point: merchant lookup, the
\* non-blocking enqueue and, when the queue is full, the dedupe check and the
\* load of the order inside the handler's transaction
PaymentDetectedHandler(h, o, tx) ==
  /\ FreeSlot(h)
  /\ Accept
  /\ IF o \notin DOMAIN orders
     THEN /\ lastResp' = ErrResp("payment", 404, "order_not_found")
          /\ UNCHANGED << verifyJobs, handlers >>
     ELSE IF QueueHasRoom(verifyJobs)
     THEN /\ verifyJobs' = Append(verifyJobs,
                 [OrderID |-> o, TxHash |-> tx, MerchantID |-> orders[o].merchant_id])
          /\ lastResp' = paymentDetectedResp(o, 202, "PENDING", "verification enqueued")
          /\ UNCHANGED handlers
     ELSE IF ToLower(tx) \in DOMAIN recentTx /\ now - recentTx[ToLower(tx)] < DedupeWindow
     THEN /\ lastResp' = paymentDetectedResp(o, 200, "PAID", "recent duplicate tx hash")
          /\ UNCHANGED << verifyJobs, handlers >>
     ELSE /\ handlers' = [handlers EXCEPT ![h] =
                 [pc |-> IF ToUpper(orders[o].asset) = "USDT" THEN "p_verify" ELSE "p_write",
                  OrderID |-> o, TxHash |-> tx,
                  merchantID |-> orders[o].merchant_id, amountMinor |-> orders[o].amount_minor,
                  asset |-> orders[o].asset, status |-> orders[o].status,
                  merchantWalletAddress |-> merchants[orders[o].merchant_id],
                  snapshot |-> dbVersion]]
          /\ lastResp' = NoResp
          /\ UNCHANGED verifyJobs
  /\ UNCHANGED << verifySem, now, dbVars, workers, recentTx, counters, sweeps >>

\* inline on-chain check; on success the tx hash enters the dedupe cache
InlineVerify(h, rpcOk) ==
  LET st == handlers[h] IN
  /\ st.pc = "p_verify"
  /\ IF VerifyBSCUSDTransfer(st.TxHash, st.merchantWalletAddress, st.amountMinor, rpcOk)
     THEN /\ recentTx' = Remember(recentTx, st.TxHash, now)
          /\ handlers' = [handlers EXCEPT ![h].pc = "p_write"]
          /\ lastResp' = NoResp
     ELSE /\ handlers' = [handlers EXCEPT ![h] = Idle]
          /\ lastResp' = ErrResp("payment", 400, "onchain_verification_failed")
          /\ UNCHANGED recentTx
  /\ UNCHANGED << verifySem, nreq, now, dbVars, verifyJobs, workers, counters, sweeps >>

\* inline idempotency check, amount override (the optional amount_minor of
\* the request body, first read here), transaction and response
InlineWrite(h, AmountMinor, dbOk) ==
  LET st == handlers[h]
      amt == IF AmountMinor # << >> /\ isValidAmountString(AmountMinor[1])
             THEN AmountMinor[1] ELSE st.amountMinor
      r == PaymentTx(orders, ledger, st.OrderID, st.TxHash, st.merchantID, st.asset, amt, now)
  IN
  /\ st.pc = "p_write"
  /\ handlers' = [handlers EXCEPT ![h] = Idle]
  /\ IF st.status \in {"PAID", "SETTLED", "REFUNDED"}
     THEN /\ lastResp' = paymentDetectedResp(st.OrderID, 200, st.status, "no-op (already processed)")
          /\ UNCHANGED << dbVars, paymentsDetectedTotal >>
     ELSE IF ~dbOk \/ dbVersion # st.snapshot \/ r.outcome = "error"
     THEN /\ lastResp' = ErrResp("payment", 500, "db_error")
          /\ UNCHANGED << dbVars, paymentsDetectedTotal >>
     ELSE IF r.outcome = "noop"
     THEN /\ lastResp' = paymentDetectedResp(st.OrderID, 200, st.status, "no-op (already processed)")
          /\ UNCHANGED << dbVars, paymentsDetectedTotal >>
     ELSE /\ orders' = r.orders
          /\ ledger' = r.ledger
          /\ dbVersion' = dbVersion + 1
          /\ paymentsDetectedTotal' = paymentsDetectedTotal + 1
          /\ lastResp' = paymentDetectedResp(st.OrderID, 200, "PAID",
                             "payment recorded; double-entry ledger written")
  \* defer func() { <-verifySem }() of a handler that verified
  /\ verifySem' = IF "sem" \in DOMAIN st THEN [verifySem EXCEPT !.api = @ - 1] ELSE verifySem
  /\ UNCHANGED << nreq, now, verifyJobs, workers, recentTx, ordersCreatedTotal, refundsProcessedTotal, sweeps >>

\* ------------------------------------------------------------ RefundHandler
\* the response body, with the request's refund_idempotency_key
refundResp(o, st, msg, key) ==
  [op |-> "refund", code |-> 200, order_id |-> o, status |-> st, message |-> msg, key |-> key]

\* the lookup of an earlier refund with this idempotency key:
\* SELECT id, status FROM orders WHERE refund_idempotency_key = ? AND id = ?
RefundLookup(h, o, key) ==
  /\ FreeSlot(h)
  /\ Accept
  /\ IF o \in DOMAIN orders /\ orders[o].refund_idempotency_key = key
     THEN /\ lastResp' = refundResp(o, orders[o].status, "no-op (already refunded)", key)
          /\ UNCHANGED handlers
     ELSE /\ handlers' = [handlers EXCEPT ![h] = [pc |-> "r_begin", orderID |-> o, key |-> key]]
          /\ lastResp' = NoResp
  /\ UNCHANGED << verifySem, now, dbVars, verifyJobs, workers, recentTx, counters, sweeps >>

\* the transaction begins: load of the order, the status switch and the
\* amount checks (the optional amount_minor of the request body is read here)
RefundBegin(h, AmountMinor) ==
  LET st == handlers[h]
      o == st.orderID
      orderAmt == orders[o].amount_minor
      amt == IF AmountMinor # << >> /\ AmountMinor[1] > 0 THEN AmountMinor[1] ELSE orderAmt
  IN
  /\ st.pc = "r_begin"
  /\ IF o \notin DOMAIN orders
     THEN /\ lastResp' = ErrResp("refund", 404, "order not found")
          /\ handlers' = [handlers EXCEPT ![h] = Idle]
     ELSE IF ~FitsInt64(orders[o].amount_minor)
     THEN \* Scan(&merchantID, &orderAmt, ...) with orderAmt int64 fails
          /\ lastResp' = ErrResp("refund", 500, "converting amount_minor to int64")
          /\ handlers' = [handlers EXCEPT ![h] = Idle]
     ELSE IF orders[o].status = "REFUNDED"
     THEN /\ lastResp' = refundResp(o, "REFUNDED", "no-op (already refunded)", st.key)
          /\ handlers' = [handlers EXCEPT ![h] = Idle]
     ELSE IF orders[o].status = "SETTLED"
     THEN /\ lastResp' = ErrResp("refund", 409, "cannot_refund_settled")
          /\ handlers' = [handlers EXCEPT ![h] = Idle]
     ELSE IF orders[o].status \in {"PENDING", "CONFIRMING"}
     THEN /\ lastResp' = ErrResp("refund", 409, "order_not_paid")
          /\ handlers' = [handlers EXCEPT ![h] = Idle]
     ELSE IF amt <= 0
     THEN /\ lastResp' = ErrResp("refund", 400, "invalid_refund_amount")
          /\ handlers' = [handlers EXCEPT ![h] = Idle]
     ELSE IF amt > orderAmt
     THEN /\ lastResp' = ErrResp("refund", 400, "refund_exceeds_order")
          /\ handlers' = [handlers EXCEPT ![h] = Idle]
     ELSE /\ handlers' = [handlers EXCEPT ![h] =
                 [pc |-> "r_write", orderID |-> o, key |-> st.key, amt |-> amt,
                  AmountMinor |-> AmountMinor, merchantID |-> orders[o].merchant_id, asset |-> orders[o].asset,
                  snapshot |-> dbVersion]]
          /\ lastResp' = NoResp
  /\ UNCHANGED << verifySem, nreq, now, dbVars, verifyJobs, workers, recentTx, counters, sweeps >>

\* the refund transaction with the clearing entry posted as a debit too
RefundTxSameDirection(ords, led, o, key, m, asset, amt, t) ==
  LET e1 == LedgerRow(RefundLedgerId(t, "refund_a", o), o, m, asset, amt, bucketMerchant, dirDebit,
                      refundEvent, NULL, t)
      e2 == LedgerRow(RefundLedgerId(t, "refund_b", o), o, m, asset, amt, bucketClearing, dirDebit,
                      refundEvent, NULL, t)
  IN IF ~LedgerInsertOk(led, e1) \/ ~LedgerInsertOk(led \cup {e1}, e2)
     THEN [outcome |-> "error", orders |-> ords, ledger |-> led]
     ELSE IF RefundKeyTaken(ords, o, key)
     THEN [outcome |-> "error", orders |-> ords, ledger |-> led]
     ELSE [outcome |-> "applied",
           orders |-> [ords EXCEPT ![o].status = "REFUNDED", ![o].refund_idempotency_key = key],
           ledger |-> led \cup {e1, e2}]

\* the two REFUND ledger inserts and UPDATE orders SET status='REFUNDED',
\* refund_idempotency_key=? WHERE id=?
RefundTx(ords, led, o, key, m, asset, amt, t) ==
  LET e1 == LedgerRow(RefundLedgerId(t, "refund_a", o), o, m, asset, amt, bucketMerchant, dirDebit,
                      refundEvent, NULL, t)
      e2 == LedgerRow(RefundLedgerId(t, "refund_b", o), o, m, asset, amt, bucketClearing, dirCredit,
                      refundEvent, NULL, t)
  IN IF ~LedgerInsertOk(led, e1) \/ ~LedgerInsertOk(led \cup {e1}, e2)
     THEN [outcome |-> "error", orders |-> ords, ledger |-> led]
     ELSE IF RefundKeyTaken(ords, o, key)
     THEN [outcome |-> "error", orders |-> ords, ledger |-> led]
     ELSE [outcome |-> "applied",
           orders |-> [ords EXCEPT ![o].status = "REFUNDED", ![o].refund_idempotency_key = key],
           ledger |-> led \cup {e1, e2}]

\* the writes of the refund transaction and the commit; after the commit
\* the handler reads refundsProcessedTotal for its increment
RefundWrite(h, dbOk) ==
  LET st == handlers[h]
      r == RefundTx(orders, ledger, st.orderID, st.key, st.merchantID, st.asset, st.amt, now)
  IN
  /\ st.pc = "r_write"
  /\ IF ~dbOk \/ dbVersion # st.snapshot \/ r.outcome = "error"
     THEN /\ lastResp' = ErrResp("refund", 500, "db_error")
          /\ handlers' = [handlers EXCEPT ![h] = Idle]
          /\ UNCHANGED dbVars
     ELSE /\ orders' = r.orders
          /\ ledger' = r.ledger
          /\ dbVersion' = dbVersion + 1
          /\ handlers' = [handlers EXCEPT ![h] =
                 [pc |-> "r_count", tmp |-> refundsProcessedTotal,
                  resp |-> refundResp(st.orderID, "REFUNDED", "refund recorded with double-entry ledger", st.key)]]
          /\ lastResp' = NoResp
  /\ UNCHANGED << verifySem, nreq, now, verifyJobs, workers, recentTx, counters, sweeps >>

\* end of RefundHandler: the store of refundsProcessedTotal++ and the response
RefundCount(h) ==
  /\ handlers[h].pc = "r_count"
  /\ refundsProcessedTotal' = PlainCount(refundsProcessedTotal, handlers[h].tmp)
  /\ lastResp' = handlers[h].resp
  /\ handlers' = [handlers EXCEPT ![h] = Idle]
  /\ UNCHANGED << verifySem, nreq, now, dbVars, verifyJobs, workers, recentTx,
                  paymentsDetectedTotal, ordersCreatedTotal, sweeps >>

\* ------------------------------------------------------------------ sweepers
Sweep(ids) == IF ids = {} THEN NoSweep ELSE [pc |-> "rows", ids |-> ids]

\* StartSettlementScheduler, on a tick of its timer:
\* SELECT id FROM orders WHERE status='PAID' AND paid_at <= cutoff
\* (a sweep that finds no row is over at once)
SettlementQuery ==
  /\ settler.pc = "wait"
  /\ settler' = Sweep({o \in DOMAIN orders : orders[o].status = "PAID"
                                             /\ orders[o].paid_at <= now - SettlementDelay})
  /\ lastResp' = NoResp
  /\ UNCHANGED << verifySem, nreq, now, dbVars, verifyJobs, workers, handlers, recentTx, counters, expirer >>

\* a settlement that also archives the order: its ledger entries are deleted
SettlementUpdateArchiving(o) ==
  /\ settler.pc = "rows"
  /\ o \in settler.ids
  /\ settler' = Sweep(settler.ids \ {o})
  /\ orders' = [orders EXCEPT ![o].status = "SETTLED"]
  /\ ledger' = {e \in ledger : e.order_id # o}
  /\ dbVersion' = dbVersion + 1
  /\ lastResp' = NoResp
  /\ UNCHANGED << verifySem, nreq, now, verifyJobs, workers, handlers, recentTx, counters, expirer >>

\* for one row of the result: UPDATE orders SET status='SETTLED' WHERE id=?
\* (after the last row, rows.Close() ends the sweep)
SettlementUpdate(o) ==
  /\ settler.pc = "rows"
  /\ o \in settler.ids
  /\ settler' = Sweep(settler.ids \ {o})
  /\ orders' = [orders EXCEPT ![o].status = "SETTLED"]
  /\ dbVersion' = dbVersion + 1
  /\ lastResp' = NoResp
  /\ UNCHANGED << verifySem, nreq, now, ledger, verifyJobs, workers, handlers, recentTx, counters, expirer >>

\* StartOrderTimeoutScheduler, on a tick of its timer:
\* SELECT id FROM orders WHERE status='PENDING' AND created_at <= cutoff
TimeoutQuery ==
  /\ expirer.pc = "wait"
  /\ expirer' = Sweep({o \in DOMAIN orders : orders[o].status = "PENDING"
                                             /\ orders[o].created_at <= now - OrderTimeout})
  /\ lastResp' = NoResp
  /\ UNCHANGED << verifySem, nreq, now, dbVars, verifyJobs, workers, handlers, recentTx, counters, settler >>

\* the update without its status guard: UPDATE orders SET status='FAILED' WHERE id=?
TimeoutUpdateUnguarded(o) ==
  /\ expirer.pc = "rows"
  /\ o \in expirer.ids
  /\ expirer' = Sweep(expirer.ids \ {o})
  /\ orders' = [orders EXCEPT ![o].status = "FAILED"]
  /\ dbVersion' = dbVersion + 1
  /\ lastResp' = NoResp
  /\ UNCHANGED << verifySem, nreq, now, ledger, verifyJobs, workers, handlers, recentTx, counters, settler >>

\* for one row of the result:
\* UPDATE orders SET status='FAILED' WHERE id=? AND status='PENDING'
TimeoutUpdate(o) ==
  /\ expirer.pc = "rows"
  /\ o \in expirer.ids
  /\ expirer' = Sweep(expirer.ids \ {o})
  /\ IF orders[o].status = "PENDING"
     THEN /\ orders' = [orders EXCEPT ![o].status = "FAILED"]
          /\ dbVersion' = dbVersion + 1
     ELSE UNCHANGED << orders, dbVersion >>
  /\ lastResp' = NoResp
  /\ UNCHANGED << verifySem, nreq, now, ledger, verifyJobs, workers, handlers, recentTx, counters, settler >>

\* the order ids a request can name: the existing ones and one unknown id
KnownIds == {o \in OrderIds : o \in DOMAIN orders \/ \A p \in OrderIds : p < o => p \in DOMAIN orders}

Next ==
  \/ Tick
  \/ \E h \in Slots, req \in CreateOrderReqs : CreateOrderLookup(h, req)
  \/ \E h \in Slots : CreateOrderInsert(h)
  \/ \E h \in Slots : CreateOrderCount(h)
  \/ \E h \in Slots, o \in KnownIds, tx \in TxHashes : PaymentDetectedHandler(h, o, tx)
  \/ \E h \in Slots, rpcOk \in BOOLEAN : InlineVerify(h, rpcOk)
  \/ \E h \in Slots, AmountMinor \in OptAmounts, dbOk \in BOOLEAN : InlineWrite(h, AmountMinor, dbOk)
  \/ \E w \in Workers : WorkerLoad(w)
  \/ \E w \in Workers, rpcOk \in BOOLEAN : WorkerVerify(w, rpcOk)
  \/ \E w \in Workers, dbOk \in BOOLEAN : WorkerTx(w, dbOk)
  \/ \E h \in Slots, o \in KnownIds, key \in RefundKeys : RefundLookup(h, o, key)
  \/ \E h \in Slots, AmountMinor \in OptAmounts : RefundBegin(h, AmountMinor)
  \/ \E h \in Slots, dbOk \in BOOLEAN : RefundWrite(h, dbOk)
  \/ \E h \in Slots : RefundCount(h)
  \/ SettlementQuery
  \/ \E o \in OrderIds : SettlementUpdate(o)
  \/ TimeoutQuery
  \/ \E o \in OrderIds : TimeoutUpdate(o)

Spec == Init /\ [][Next]_vars

\* ------------------------------------------------ twin orders, one transfer
\* two orders of the same merchant for the same amount of BSC-USD
TwinCreateOrderReqs ==
  {r \in CreateOrderReqs \cup MoreCreateOrderReqs :
     r.merchant_id = "m1" /\ ToUpper(r.asset) = "USDT" /\ ToUpper(r.chain) = "BSC" /\ r.amount_minor = 1}

\* one on-chain transaction in two spellings of its hash
CaseTxHashes == {"0xa1"} \cup MoreTxHashes

\* order creation and the payment paths, with the submissions above
NextCase ==
  \/ Tick
  \/ \E h \in Slots, req \in TwinCreateOrderReqs : CreateOrderLookup(h, req)
  \/ \E h \in Slots : CreateOrderInsert(h)
  \/ \E h \in Slots : CreateOrderCount(h)
  \/ \E h \in Slots, o \in KnownIds, tx \in CaseTxHashes : PaymentDetectedHandler(h, o, tx)
  \/ \E h \in Slots, rpcOk \in BOOLEAN : InlineVerify(h, rpcOk)
  \/ \E h \in Slots, AmountMinor \in OptAmounts, dbOk \in BOOLEAN : InlineWrite(h, AmountMinor, dbOk)
  \/ \E w \in Workers : WorkerLoad(w)
  \/ \E w \in Workers, rpcOk \in BOOLEAN : WorkerVerify(w, rpcOk)
  \/ \E w \in Workers, dbOk \in BOOLEAN : WorkerTx(w, dbOk)

SpecCase == Init /\ [][NextCase]_vars

\* ------------------------------------- one order, two verified transfers
\* two transactions that both pay the amount of the first order
RaceTxHashes == {"0xa1", "0xd4"}

NextRace ==
  \/ Tick
  \/ \E h \in Slots, req \in CreateOrderReqs : CreateOrderLookup(h, req)
  \/ \E h \in Slots : CreateOrderInsert(h)
  \/ \E h \in Slots : CreateOrderCount(h)
  \/ \E h \in Slots, o \in KnownIds, tx \in RaceTxHashes : PaymentDetectedHandler(h, o, tx)
  \/ \E h \in Slots, rpcOk \in BOOLEAN : InlineVerify(h, rpcOk)
  \/ \E h \in Slots, AmountMinor \in OptAmounts, dbOk \in BOOLEAN : InlineWrite(h, AmountMinor, dbOk)
  \/ \E w \in Workers : WorkerLoad(w)
  \/ \E w \in Workers, rpcOk \in BOOLEAN : WorkerVerify(w, rpcOk)
  \/ \E w \in Workers, dbOk \in BOOLEAN : WorkerTx(w, dbOk)

SpecRace == Init /\ [][NextRace]_vars

\* --------------------------------------------- the deadlines of the paths
\* how long a verification may take, from the call to its return
VerifyDurations == 0 .. RpcTimeout

\* the check of the job, taking d seconds of the job's context
WorkerVerifyTimed(w, rpcOk, d) ==
  LET st == workers[w] IN
  /\ st.pc = "verify"
  /\ workers' = [workers EXCEPT ![w] =
       IF VerifyBSCUSDTransfer(st.job.TxHash, st.merchantWalletAddress, st.amountMinor, rpcOk)
       THEN [pc |-> "tx", job |-> st.job, merchantID |-> st.merchantID,
             amountMinor |-> st.amountMinor, asset |-> st.asset,
             merchantWalletAddress |-> st.merchantWalletAddress, elapsed |-> d]
       ELSE Idle]
  /\ lastResp' = NoResp
  /\ UNCHANGED << verifySem, nreq, now, dbVars, verifyJobs, handlers, recentTx, counters, sweeps >>

\* db.BeginTx(ctx, ...) of the worker: it fails when the context of the job,
\* created before the load of the order, has expired
WorkerTxTimed(w) ==
  WorkerTx(w, "elapsed" \notin DOMAIN workers[w] \/ workers[w].elapsed < JobTimeout)

\* the inline check, taking d seconds of the request's context
InlineVerifyTimed(h, rpcOk, d) ==
  LET st == handlers[h] IN
  /\ st.pc = "p_verify"
  /\ IF VerifyBSCUSDTransfer(st.TxHash, st.merchantWalletAddress, st.amountMinor, rpcOk)
     THEN /\ recentTx' = Remember(recentTx, st.TxHash, now)
          /\ handlers' = [handlers EXCEPT ![h] =
                 [pc |-> "p_write", OrderID |-> st.OrderID, TxHash |-> st.TxHash,
                  merchantID |-> st.merchantID, amountMinor |-> st.amountMinor,
                  asset |-> st.asset, status |-> st.status,
                  merchantWalletAddress |-> st.merchantWalletAddress,
                  snapshot |-> st.snapshot, elapsed |-> d]]
          /\ lastResp' = NoResp
     ELSE /\ handlers' = [handlers EXCEPT ![h] = Idle]
          /\ lastResp' = ErrResp("payment", 400, "onchain_verification_failed")
          /\ UNCHANGED recentTx
  /\ UNCHANGED << verifySem, nreq, now, dbVars, verifyJobs, workers, counters, sweeps >>

\* the statements of the inline transaction run with reqCtx, created before
\* BeginTx: they fail when it has expired
InlineWriteTimed(h, AmountMinor) ==
  InlineWrite(h, AmountMinor, "elapsed" \notin DOMAIN handlers[h] \/ handlers[h].elapsed < ReqTimeout)

NextDeadline ==
  \/ Tick
  \/ \E h \in Slots, req \in CreateOrderReqs : CreateOrderLookup(h, req)
  \/ \E h \in Slots : CreateOrderInsert(h)
  \/ \E h \in Slots : CreateOrderCount(h)
  \/ \E h \in Slots, o \in KnownIds, tx \in TxHashes : PaymentDetectedHandler(h, o, tx)
  \/ \E h \in Slots, rpcOk \in BOOLEAN, d \in VerifyDurations : InlineVerifyTimed(h, rpcOk, d)
  \/ \E h \in Slots, AmountMinor \in OptAmounts : InlineWriteTimed(h, AmountMinor)
  \/ \E w \in Workers : WorkerLoad(w)
  \/ \E w \in Workers, rpcOk \in BOOLEAN, d \in VerifyDurations : WorkerVerifyTimed(w, rpcOk, d)
  \/ \E w \in Workers : WorkerTxTimed(w)

SpecDeadline == Init /\ [][NextDeadline]_vars

\* ------------------------------------------------------ the verifier alone
\* logs a receipt can hold: of the token contract or another one, a
\* Transfer to either wallet, an Approval, a Transfer with two topics
VerifyLogs ==
  { Log(a, t, d) :
      a \in {HexToAddress(BSC_USD_ADDRESS), "0xother"},
      t \in { << transferSig, "payer", "w1" >>, << transferSig, "payer", "w2" >>,
              << approvalSig, "payer", "w1" >>, << transferSig, "payer" >> },
      d \in {1, 2} }

VerifyReceipts == UNION { [1..n -> VerifyLogs] : n \in 0..MaxLogs }

\* a call of the verifier on a receipt, before it returns
VerifyCalls ==
  { [op |-> "call", logs |-> l, destAddress |-> a, expectedAmount |-> e] :
      l \in VerifyReceipts, a \in {"w1", "W1", "w2"}, e \in 1..3 }

InitVerify ==
  /\ now = 0
  /\ orders = << >>
  /\ ledger = {}
  /\ dbVersion = 0
  /\ verifyJobs = << >>
  /\ verifySem = [api |-> 0, rpc |-> 0]
  /\ workers = [w \in Workers |-> Idle]
  /\ handlers = [h \in Slots |-> Idle]
  /\ recentTx = << >>
  /\ paymentsDetectedTotal = 0
  /\ ordersCreatedTotal = 0
  /\ refundsProcessedTotal = 0
  /\ settler = NoSweep
  /\ expirer = NoSweep
  /\ lastResp \in VerifyCalls
  /\ nreq = 0

\* the verifier returns
VerifyReturn ==
  /\ lastResp.op = "call"
  /\ lastResp' = [lastResp EXCEPT !.op = "verify"] @@
                 [ok |-> VerifyReceipt(lastResp.logs, lastResp.destAddress, lastResp.expectedAmount)]
  /\ UNCHANGED << verifySem, nreq, now, dbVars, verifyJobs, workers, handlers, recentTx, counters, sweeps >>

SpecVerify == InitVerify /\ [][VerifyReturn]_vars

\* ------------------------------------------- the verification semaphores
\* The on-chain check taken apart: the caller takes a slot of the api
\* package's verifySem, calls VerifyBSCUSDTransfer, which takes a slot of the
\* blockchain package's verifySem for the time of the RPC call. A semaphore
\* is a buffered channel; the slots taken are the callers between the send
\* and the receive.
ApiSemHolders ==
  Cardinality({w \in Workers : workers[w].pc \in {"v_api", "v_rpc"}})
  + Cardinality({h \in Slots : \/ handlers[h].pc \in {"p_api", "p_rpc"}
                               \/ handlers[h].pc = "p_write" /\ "sem" \in DOMAIN handlers[h]})

\* verifier RPC calls in progress
RpcSemHolders ==
  Cardinality({w \in Workers : workers[w].pc = "v_rpc"})
  + Cardinality({h \in Slots : handlers[h].pc = "p_rpc"})

\* a verifier without its own semaphore
RpcSemUnbounded == TRUE

\* verifySem <- struct{}{} in VerifyBSCUSDTransfer can proceed
RpcSemFree == verifySem.rpc < rpcVerifySemCap

\* verifySem <- struct{}{} in the api package can proceed
ApiSemFree == verifySem.api < apiVerifySemCap

WorkerSemAcquire(w) ==
  /\ workers[w].pc = "verify"
  /\ ApiSemFree
  /\ workers' = [workers EXCEPT ![w].pc = "v_api"]
  /\ lastResp' = NoResp
  /\ verifySem' = [verifySem EXCEPT !.api = @ + 1]
  /\ UNCHANGED << nreq, now, dbVars, verifyJobs, handlers, recentTx, counters, sweeps >>

WorkerRpcAcquire(w) ==
  /\ workers[w].pc = "v_api"
  /\ RpcSemFree
  /\ workers' = [workers EXCEPT ![w].pc = "v_rpc"]
  /\ lastResp' = NoResp
  /\ verifySem' = [verifySem EXCEPT !.rpc = @ + 1]
  /\ UNCHANGED << nreq, now, dbVars, verifyJobs, handlers, recentTx, counters, sweeps >>

\* the call returns and both slots are given back
WorkerRpcReturn(w, rpcOk) ==
  LET st == workers[w] IN
  /\ st.pc = "v_rpc"
  /\ workers' = [workers EXCEPT ![w] =
       IF VerifyBSCUSDTransfer(st.job.TxHash, st.merchantWalletAddress, st.amountMinor, rpcOk)
       THEN [st EXCEPT !.pc = "tx"] ELSE Idle]
  /\ lastResp' = NoResp
  /\ verifySem' = [verifySem EXCEPT !.api = @ - 1, !.rpc = @ - 1]
  /\ UNCHANGED << nreq, now, dbVars, verifyJobs, handlers, recentTx, counters, sweeps >>

InlineSemAcquire(h) ==
  /\ handlers[h].pc = "p_verify"
  /\ ApiSemFree
  /\ handlers' = [handlers EXCEPT ![h].pc = "p_api"]
  /\ lastResp' = NoResp
  /\ verifySem' = [verifySem EXCEPT !.api = @ + 1]
  /\ UNCHANGED << nreq, now, dbVars, verifyJobs, workers, recentTx, counters, sweeps >>

InlineRpcAcquire(h) ==
  /\ handlers[h].pc = "p_api"
  /\ RpcSemFree
  /\ handlers' = [handlers EXCEPT ![h].pc = "p_rpc"]
  /\ lastResp' = NoResp
  /\ verifySem' = [verifySem EXCEPT !.rpc = @ + 1]
  /\ UNCHANGED << nreq, now, dbVars, verifyJobs, workers, recentTx, counters, sweeps >>

\* the call returns; the handler keeps its slot of the api semaphore until
\* it returns (defer)
InlineRpcReturn(h, rpcOk) ==
  LET st == handlers[h] IN
  /\ st.pc = "p_rpc"
  /\ IF VerifyBSCUSDTransfer(st.TxHash, st.merchantWalletAddress, st.amountMinor, rpcOk)
     THEN /\ recentTx' = Remember(recentTx, st.TxHash, now)
          /\ handlers' = [handlers EXCEPT ![h] = [st EXCEPT !.pc = "p_write"] @@ [sem |-> TRUE]]
          /\ lastResp' = NoResp
     ELSE /\ handlers' = [handlers EXCEPT ![h] = Idle]
          /\ lastResp' = ErrResp("payment", 400, "onchain_verification_failed")
          /\ UNCHANGED recentTx
  /\ verifySem' = IF VerifyBSCUSDTransfer(st.TxHash, st.merchantWalletAddress, st.amountMinor, rpcOk)
                   THEN [verifySem EXCEPT !.rpc = @ - 1]
                   ELSE [verifySem EXCEPT !.api = @ - 1, !.rpc = @ - 1]
  /\ UNCHANGED << nreq, now, dbVars, verifyJobs, workers, counters, sweeps >>

NextSem ==
  \/ \E h \in Slots, req \in CreateOrderReqs : CreateOrderLookup(h, req)
  \/ \E h \in Slots : CreateOrderInsert(h)
  \/ \E h \in Slots : CreateOrderCount(h)
  \/ \E h \in Slots, o \in KnownIds, tx \in TxHashes : PaymentDetectedHandler(h, o, tx)
  \/ \E h \in Slots : InlineSemAcquire(h)
  \/ \E h \in Slots : InlineRpcAcquire(h)
  \/ \E h \in Slots, rpcOk \in BOOLEAN : InlineRpcReturn(h, rpcOk)
  \/ \E h \in Slots, AmountMinor \in OptAmounts, dbOk \in BOOLEAN : InlineWrite(h, AmountMinor, dbOk)
  \/ \E w \in Workers : WorkerLoad(w)
  \/ \E w \in Workers : WorkerSemAcquire(w)
  \/ \E w \in Workers : WorkerRpcAcquire(w)
  \/ \E w \in Workers, rpcOk \in BOOLEAN : WorkerRpcReturn(w, rpcOk)
  \/ \E w \in Workers, dbOk \in BOOLEAN : WorkerTx(w, dbOk)

SpecSem == Init /\ [][NextSem]_vars

\* ---------------------------------------------------------------- ledger views
EntriesOf(o, ev) == {e \in ledger : e.order_id = o /\ e.event_type = ev}
EntriesIn(o, ev, bucket) == {e \in EntriesOf(o, ev) : e.bucket = bucket}
EventTypes == {eventPaymentConfirmed, refundEvent}
TerminalStatuses == {"SETTLED", "REFUNDED", "FAILED"}

\* SUM(CASE WHEN direction='credit' THEN amount_minor ELSE -amount_minor END)
RECURSIVE SignedSum(_)
SignedSum(S) ==
  IF S = {} THEN 0
  ELSE LET e == CHOOSE x \in S : TRUE
       IN (IF e.direction = dirCredit THEN e.amount_minor ELSE 0 - e.amount_minor) + SignedSum(S \ {e})

RECURSIVE AmountSum(_)
AmountSum(S) ==
  IF S = {} THEN 0
  ELSE LET e == CHOOSE x \in S : TRUE IN e.amount_minor + AmountSum(S \ {e})

\* ReconciliationHandler: the balance of a bucket for a merchant and an asset
Balance(m, asset, bucket) ==
  SignedSum({e \in ledger : e.merchant_id = m /\ e.asset = asset /\ e.bucket = bucket})

\* an order has exactly one PAYMENT_CONFIRMED pair: one merchant entry and one clearing entry
HasPaymentPair(o) ==
  /\ Cardinality(EntriesOf(o, eventPaymentConfirmed)) = 2
  /\ Cardinality(EntriesIn(o, eventPaymentConfirmed, bucketMerchant)) = 1
  /\ Cardinality(EntriesIn(o, eventPaymentConfirmed, bucketClearing)) = 1

\* --------------------------------------------------- amounts beyond int64
\* an order for more than an int64 holds, and an ordinary one
BigCreateOrderReqs ==
  { [merchant_id |-> "m1", amount_minor |-> MaxInt64 + 1, asset |-> "USDT", chain |-> "BSC",
     idempotency_key |-> "k1"],
    [merchant_id |-> "m1", amount_minor |-> 1, asset |-> "USDT", chain |-> "BSC",
     idempotency_key |-> "k2"] }

BigTxHashes == {"0xa1", "0xc3"}

\* SELECT COALESCE(SUM(CASE WHEN direction='credit' THEN amount_minor
\* ELSE -amount_minor END),0) scanned into an int64: the exact sum when every
\* term and the sum are int64 values, and otherwise a REAL or an overflow,
\* which the scan refuses
SumScan(m, asset, bucket) ==
  LET S == {e \in ledger : e.merchant_id = m /\ e.asset = asset /\ e.bucket = bucket} IN
  IF (\A e \in S : FitsInt64(e.amount_minor)) /\ FitsInt64(SignedSum(S))
  THEN [ok |-> TRUE, v |-> SignedSum(S)]
  ELSE [ok |-> FALSE, v |-> 0]

\* ReconciliationHandler, first query: the clearing balance
ReconcileClearing(h, m, asset) ==
  /\ FreeSlot(h)
  /\ Accept
  /\ IF SumScan(m, asset, bucketClearing).ok
     THEN /\ handlers' = [handlers EXCEPT ![h] =
                 [pc |-> "q_merchant", merchantID |-> m, asset |-> asset,
                  clearingBalance |-> SumScan(m, asset, bucketClearing).v]]
          /\ lastResp' = NoResp
     ELSE /\ lastResp' = ErrResp("reconciliation", 500, "converting balance to int64")
          /\ UNCHANGED handlers
  /\ UNCHANGED << verifySem, now, dbVars, verifyJobs, workers, recentTx, counters, sweeps >>

\* ReconciliationHandler, the merchant balance, the count of PAID orders
\* and the response
ReconcileMerchant(h) ==
  LET st == handlers[h] IN
  /\ st.pc = "q_merchant"
  /\ handlers' = [handlers EXCEPT ![h] = Idle]
  /\ lastResp' =
       IF SumScan(st.merchantID, st.asset, bucketMerchant).ok
       THEN [op |-> "reconciliation", code |-> 200, merchant_id |-> st.merchantID, asset |-> st.asset,
             merchant_balance_minor |-> SumScan(st.merchantID, st.asset, bucketMerchant).v,
             clearing_balance_minor |-> st.clearingBalance,
             unsettled_paid_count |->
               Cardinality({o \in DOMAIN orders : /\ orders[o].merchant_id = st.merchantID
                                                  /\ orders[o].asset = st.asset
                                                  /\ orders[o].status = "PAID"})]
       ELSE ErrResp("reconciliation", 500, "converting balance to int64")
  /\ UNCHANGED << verifySem, nreq, now, dbVars, verifyJobs, workers, recentTx, counters, sweeps >>

NextBig ==
  \/ \E h \in Slots, req \in BigCreateOrderReqs : CreateOrderLookup(h, req)
  \/ \E h \in Slots : CreateOrderInsert(h)
  \/ \E h \in Slots : CreateOrderCount(h)
  \/ \E h \in Slots, o \in KnownIds, tx \in BigTxHashes : PaymentDetectedHandler(h, o, tx)
  \/ \E h \in Slots, rpcOk \in BOOLEAN : InlineVerify(h, rpcOk)
  \/ \E h \in Slots, AmountMinor \in OptAmounts, dbOk \in BOOLEAN : InlineWrite(h, AmountMinor, dbOk)
  \/ \E w \in Workers : WorkerLoad(w)
  \/ \E w \in Workers, rpcOk \in BOOLEAN : WorkerVerify(w, rpcOk)
  \/ \E w \in Workers, dbOk \in BOOLEAN : WorkerTx(w, dbOk)
  \/ \E h \in Slots, o \in KnownIds, key \in RefundKeys : RefundLookup(h, o, key)
  \/ \E h \in Slots, AmountMinor \in OptAmounts : RefundBegin(h, AmountMinor)
  \/ \E h \in Slots, dbOk \in BOOLEAN : RefundWrite(h, dbOk)
  \/ \E h \in Slots : RefundCount(h)
  \/ \E h \in Slots, m \in MerchantIds : ReconcileClearing(h, m, "USDT")
  \/ \E h \in Slots : ReconcileMerchant(h)

SpecBig == Init /\ [][NextBig]_vars

\* ------------------------------------------- two merchants, the same keys
NextMerchants ==
  \/ \E h \in Slots, req \in CreateOrderReqs \cup MoreCreateOrderReqs : CreateOrderLookup(h, req)
  \/ \E h \in Slots : CreateOrderInsert(h)
  \/ \E h \in Slots : CreateOrderCount(h)

SpecMerchants == Init /\ [][NextMerchants]_vars

\* ------------------------------------------------ the pipeline, fair workers
\* The workers run until the process ends (for job := range verifyJobs), and
\* the database accepts the transaction of a worker.
NextLive ==
  \/ Tick
  \/ \E h \in Slots, req \in CreateOrderReqs : CreateOrderLookup(h, req)
  \/ \E h \in Slots : CreateOrderInsert(h)
  \/ \E h \in Slots : CreateOrderCount(h)
  \/ \E h \in Slots, o \in KnownIds, tx \in TxHashes : PaymentDetectedHandler(h, o, tx)
  \/ \E h \in Slots, rpcOk \in BOOLEAN : InlineVerify(h, rpcOk)
  \/ \E h \in Slots, AmountMinor \in OptAmounts, dbOk \in BOOLEAN : InlineWrite(h, AmountMinor, dbOk)
  \/ \E w \in Workers : WorkerLoad(w)
  \/ \E w \in Workers, rpcOk \in BOOLEAN : WorkerVerify(w, rpcOk)
  \/ \E w \in Workers : WorkerTx(w, TRUE)

SpecLive ==
  /\ Init
  /\ [][NextLive]_vars
  /\ WF_vars(\E w \in Workers : WorkerLoad(w))
  /\ WF_vars(\E w \in Workers, rpcOk \in BOOLEAN : WorkerVerify(w, rpcOk))
  /\ WF_vars(\E w \in Workers : WorkerTx(w, TRUE))

\* ------------------------------------- the two paths of one submission
\* what a path leaves behind: the database, the dedupe cache, the counter
Outcome(ords, led, cache, total) ==
  [orders |-> ords, ledger |-> led, recentTx |-> cache, paymentsDetectedTotal |-> total]

\* processVerificationJob run to its end on the job (o, tx), the verifier
\* answering as rpcOk allows
WorkerOutcome(o, tx, rpcOk) ==
  LET row == orders[o]
      same == Outcome(orders, ledger, recentTx, paymentsDetectedTotal)
      r == PaymentTx(orders, ledger, o, tx, row.merchant_id, row.asset, row.amount_minor, now)
  IN IF row.status \in {"PAID", "SETTLED", "REFUNDED"} THEN same
     ELSE IF row.merchant_id \notin DOMAIN merchants THEN same
     ELSE IF /\ ToUpper(row.asset) = "USDT" /\ ToUpper(row.chain) = "BSC"
             /\ ~VerifyBSCUSDTransfer(tx, merchants[row.merchant_id], row.amount_minor, rpcOk)
     THEN same
     ELSE IF r.outcome # "applied" THEN same
     ELSE Outcome(r.orders, r.ledger, Remember(recentTx, tx, now), paymentsDetectedTotal + 1)

\* the inline part of PaymentDetectedHandler run to its end on the
\* submission (o, tx) with the optional amount_minor of the request body
InlineOutcome(o, tx, rpcOk, AmountMinor) ==
  LET row == orders[o]
      same == Outcome(orders, ledger, recentTx, paymentsDetectedTotal)
      cache == IF ToUpper(row.asset) = "USDT" THEN Remember(recentTx, tx, now) ELSE recentTx
      amt == IF AmountMinor # << >> /\ isValidAmountString(AmountMinor[1])
             THEN AmountMinor[1] ELSE row.amount_minor
      r == PaymentTx(orders, ledger, o, tx, row.merchant_id, row.asset, amt, now)
  IN IF ToLower(tx) \in DOMAIN recentTx /\ now - recentTx[ToLower(tx)] < DedupeWindow THEN same
     ELSE IF /\ ToUpper(row.asset) = "USDT"
             /\ ~VerifyBSCUSDTransfer(tx, merchants[row.merchant_id], row.amount_minor, rpcOk)
     THEN same
     ELSE IF row.status \in {"PAID", "SETTLED", "REFUNDED"}
     THEN Outcome(orders, ledger, cache, paymentsDetectedTotal)
     ELSE IF r.outcome # "applied" THEN Outcome(orders, ledger, cache, paymentsDetectedTotal)
     ELSE Outcome(r.orders, r.ledger, cache, paymentsDetectedTotal + 1)

\* ------------------------------------------------------------------- claims

\* C1: no double-processing. Whatever PaymentDetected submissions were made
\* for an order and however they interleave, an order to which a payment has
\* been applied (its tx_hash is set) has exactly one PAYMENT_CONFIRMED pair,
\* and no order ever has more than one merchant entry or more than one
\* clearing entry of that event type.
C1_NoDoubleProcessing ==
  \A o \in DOMAIN orders :
    /\ Cardinality(EntriesIn(o, eventPaymentConfirmed, bucketMerchant)) <= 1
    /\ Cardinality(EntriesIn(o, eventPaymentConfirmed, bucketClearing)) <= 1
    /\ orders[o].tx_hash # NULL => HasPaymentPair(o)

\* a repeated submission for an order that has its pair was answered as a no-op
C1_Witness ==
  /\ lastResp.op = "payment"
  /\ lastResp.code = 200
  /\ lastResp.message = "no-op (already processed)"
  /\ orders[lastResp.order_id].tx_hash # NULL
  /\ HasPaymentPair(lastResp.order_id)

\* C2: double-entry balance. For every order and every event type the ledger
\* holds no entry or exactly two, one per bucket, with opposite directions
\* and equal amounts; credits equal debits and, for every merchant and
\* asset, merchant balance + clearing balance = 0.
C2_DoubleEntryBalance ==
  /\ \A o \in OrderIds, ev \in EventTypes :
       LET E == EntriesOf(o, ev) IN
         \/ E = {}
         \/ /\ Cardinality(E) = 2
            /\ \E a \in E, b \in E :
                 /\ a.bucket = bucketMerchant
                 /\ b.bucket = bucketClearing
                 /\ a.direction # b.direction
                 /\ a.amount_minor = b.amount_minor
            /\ SignedSum(E) = 0
  /\ \A m \in MerchantIds, asset \in {e.asset : e \in ledger} :
       Balance(m, asset, bucketMerchant) + Balance(m, asset, bucketClearing) = 0

\* an order with both a PAYMENT_CONFIRMED pair and a REFUND pair
C2_Witness ==
  \E o \in DOMAIN orders :
    /\ EntriesOf(o, eventPaymentConfirmed) # {}
    /\ EntriesOf(o, refundEvent) # {}

\* C3: guarded transitions. No step changes the status of an order that is
\* SETTLED, REFUNDED or FAILED, and no step takes an order from PAID to PENDING.
C3_GuardedTransitions ==
  [][\A o \in DOMAIN orders :
       /\ orders[o].status \in TerminalStatuses => orders'[o].status = orders[o].status
       /\ orders[o].status = "PAID" => orders'[o].status # "PENDING"]_vars

\* C4: amount fidelity. Every PAYMENT_CONFIRMED ledger entry carries the
\* amount the verifier checked, the order's amount_minor.
C4_AmountFidelity ==
  \A e \in ledger :
    e.event_type = eventPaymentConfirmed => e.amount_minor = orders[e.order_id].amount_minor

\* C5: refund cap. For every order the sum of its REFUND merchant debits is at
\* most the amount of its PAYMENT_CONFIRMED merchant credit (zero when there is none).
C5_RefundCap ==
  \A o \in DOMAIN orders :
    AmountSum({e \in EntriesIn(o, refundEvent, bucketMerchant) : e.direction = dirDebit})
      <= AmountSum({e \in EntriesIn(o, eventPaymentConfirmed, bucketMerchant) : e.direction = dirCredit})

\* C6: an order is paid only with a transaction that the chain verifier
\* accepts for (tx id, merchant wallet, order amount), whatever its asset and chain.
C6_PaidOnlyIfVerified ==
  \A o \in DOMAIN orders :
    orders[o].tx_hash # NULL =>
      VerifyBSCUSDTransfer(orders[o].tx_hash, merchants[orders[o].merchant_id],
                           orders[o].amount_minor, TRUE)

\* C7: atomic PAYMENT_CONFIRMED effect. An order has a PAYMENT_CONFIRMED pair
\* if and only if its status is PAID, SETTLED or REFUNDED.
C7_PairIffPaid ==
  \A o \in DOMAIN orders :
    HasPaymentPair(o) <=> orders[o].status \in {"PAID", "SETTLED", "REFUNDED"}

\* C8: refund only on PAID. A step enters REFUNDED only from PAID and adds
\* REFUND ledger entries only for an order that is PAID before the step.
C8_RefundOnlyFromPaid ==
  [][\A o \in DOMAIN orders :
       /\ (orders'[o].status = "REFUNDED" /\ orders[o].status # "REFUNDED")
            => orders[o].status = "PAID"
       /\ EntriesOf(o, refundEvent)' # EntriesOf(o, refundEvent)
            => orders[o].status = "PAID"]_vars

\* C9: CreateOrder is idempotent per (merchant_id, idempotency_key). No two
\* rows share the pair; every successful response to a request with the pair
\* names the one row that carries it, with that row's deposit address; a
\* response for an existing order leaves the orders table unchanged; and the
\* merchant, key and deposit address of a row never change.
C9_CreateIdempotent ==
  /\ [](/\ \A o \in DOMAIN orders, p \in DOMAIN orders :
             (orders[o].merchant_id = orders[p].merchant_id
              /\ orders[o].order_idempotency_key = orders[p].order_idempotency_key) => o = p
        /\ (lastResp.op = "create" /\ lastResp.code = 200) =>
             /\ lastResp.order_id \in DOMAIN orders
             /\ orders[lastResp.order_id].merchant_id = lastResp.merchant_id
             /\ orders[lastResp.order_id].order_idempotency_key = lastResp.key
             /\ orders[lastResp.order_id].deposit_address = lastResp.deposit_address)
  /\ [][/\ (lastResp'.op = "create" /\ lastResp'.code = 200 /\ lastResp'.path # "inserted")
             => orders' = orders
        /\ \A o \in DOMAIN orders :
             /\ o \in DOMAIN orders'
             /\ orders'[o].merchant_id = orders[o].merchant_id
             /\ orders'[o].order_idempotency_key = orders[o].order_idempotency_key
             /\ orders'[o].deposit_address = orders[o].deposit_address]_vars

\* a concurrent duplicate was detected by the unique constraint on insert
C9_Witness ==
  /\ lastResp.op = "create"
  /\ lastResp.code = 200
  /\ lastResp.path = "constraint"

\* C10: Refund is idempotent. A Refund that repeats the refund idempotency
\* key recorded on the order is answered with status REFUNDED.
C10_RefundIdempotent ==
  (/\ lastResp.op = "refund"
   /\ lastResp.code = 200
   /\ lastResp.order_id \in DOMAIN orders
   /\ orders[lastResp.order_id].refund_idempotency_key = lastResp.key)
    => lastResp.status = "REFUNDED"

\* C11: repeating PaymentDetected for a PAID order is a no-op. No step of the
\* worker path or of the inline path changes the row (status, tx_hash,
\* paid_at) of an order that is PAID, or the ledger entries of that order.
C11_PaidRepeatNoOp ==
  [][(\/ workers' # workers
      \/ verifyJobs' # verifyJobs
      \/ lastResp'.op = "payment"
      \/ \E h \in Slots : handlers[h].pc \in {"p_verify", "p_write"} /\ handlers'[h] # handlers[h])
     => \A o \in DOMAIN orders :
          orders[o].status = "PAID" =>
            /\ orders'[o] = orders[o]
            /\ {e \in ledger' : e.order_id = o} = {e \in ledger : e.order_id = o}]_vars

\* the inline path answered a submission for a PAID order as a no-op
C11_Witness ==
  /\ lastResp.op = "payment"
  /\ lastResp.code = 200
  /\ lastResp.message = "no-op (already processed)"
  /\ lastResp.status = "PAID"
  /\ orders[lastResp.order_id].status = "PAID"
  /\ HasPaymentPair(lastResp.order_id)

C13_RefundRefusals ==
  [][\A o \in DOMAIN orders :
       ((\/ \E h \in Slots : /\ handlers[h].pc = "r_begin"
                             /\ handlers[h].orderID = o
                             /\ handlers'[h].pc = "idle"
         \/ /\ nreq' # nreq
            /\ lastResp'.op = "refund"
            /\ lastResp'.code = 200
            /\ lastResp'.order_id = o)
        /\ orders[o].status \in {"SETTLED", "PENDING", "CONFIRMING", "REFUNDED"})
       => /\ orders' = orders
          /\ ledger' = ledger
          /\ orders[o].status = "SETTLED" => lastResp' = ErrResp("refund", 409, "cannot_refund_settled")
          /\ orders[o].status \in {"PENDING", "CONFIRMING"} => lastResp' = ErrResp("refund", 409, "order_not_paid")
          /\ orders[o].status = "REFUNDED" =>
               /\ lastResp'.op = "refund"
               /\ lastResp'.code = 200
               /\ lastResp'.status = "REFUNDED"]_vars

\* C14: refund amount validation. A Refund of a PAID order that passed the
\* amount checks has an amount a with 0 < a <= order amount, and when the request names an
\* amount, that amount is positive and at most the order amount (a request
\* for zero or a negative amount is never applied).
C14_RefundAmountValidated ==
  \A h \in Slots :
    (handlers[h].pc = "r_write" /\ orders[handlers[h].orderID].status = "PAID") =>
      /\ 0 < handlers[h].amt
      /\ handlers[h].amt <= orders[handlers[h].orderID].amount_minor
      /\ handlers[h].AmountMinor # << >> =>
           /\ 0 < handlers[h].AmountMinor[1]
           /\ handlers[h].AmountMinor[1] <= orders[handlers[h].orderID].amount_minor

\* C15: refund effect. A successful Refund of a PAID order sets status
\* REFUNDED and the refund idempotency key and adds exactly two REFUND
\* entries for the order, a merchant debit and a clearing credit of the
\* refund amount; after a full refund (of the order amount) the order's
\* entries sum to zero in the merchant bucket and in the clearing bucket.
C15_RefundEffect ==
  [][\A h \in Slots :
       (/\ handlers[h].pc = "r_write"
        /\ handlers'[h].pc = "r_count"
        /\ orders[handlers[h].orderID].status = "PAID")
       => LET new == ledger' \ ledger
              o == handlers[h].orderID
          IN
          /\ orders'[o].status = "REFUNDED"
          /\ orders'[o].refund_idempotency_key = handlers[h].key
          /\ handlers'[h].resp.status = "REFUNDED"
          /\ Cardinality(new) = 2
          /\ \A e \in new : e.order_id = o /\ e.event_type = refundEvent /\ e.amount_minor > 0
          /\ \E a \in new, b \in new :
               /\ a.bucket = bucketMerchant /\ a.direction = dirDebit
               /\ b.bucket = bucketClearing /\ b.direction = dirCredit
               /\ a.amount_minor = b.amount_minor
               /\ a.amount_minor = orders[o].amount_minor =>
                    /\ SignedSum({e \in ledger' : e.order_id = o /\ e.bucket = bucketMerchant}) = 0
                    /\ SignedSum({e \in ledger' : e.order_id = o /\ e.bucket = bucketClearing}) = 0]_vars

\* C16: settlement is a guarded PAID -> SETTLED transition. A step makes an
\* order SETTLED only if the order is PAID at that moment and
\* paid_at + settlement_delay <= now.
C16_SettlementGuarded ==
  [][\A o \in DOMAIN orders :
       (orders'[o].status = "SETTLED" /\ orders[o].status # "SETTLED")
         => /\ orders[o].status = "PAID"
            /\ orders[o].paid_at + SettlementDelay <= now]_vars

\* C17: timeout is a guarded PENDING -> FAILED transition. A step makes an
\* order FAILED only if the order is PENDING at that moment and
\* created_at + order_ttl <= now, and it writes no ledger entry; an order
\* that is FAILED has no ledger entry and no tx_hash, so of a payment
\* confirmation and the timeout racing on a PENDING order only one applies.
C17_TimeoutGuarded ==
  /\ [](\A o \in DOMAIN orders :
          orders[o].status = "FAILED" =>
            /\ {e \in ledger : e.order_id = o} = {}
            /\ orders[o].tx_hash = NULL)
  /\ [][\A o \in DOMAIN orders :
          (orders'[o].status = "FAILED" /\ orders[o].status # "FAILED")
            => /\ orders[o].status = "PENDING"
               /\ orders[o].created_at + OrderTimeout <= now
               /\ ledger' = ledger]_vars

\* a payment confirmation lost to the timeout sweeper: the submission was
\* answered as a no-op, the order is FAILED and has no ledger entry
C17_Witness ==
  /\ lastResp.op = "payment"
  /\ lastResp.code = 200
  /\ lastResp.status = "FAILED"
  /\ orders[lastResp.order_id].status = "FAILED"
  /\ {e \in ledger : e.order_id = lastResp.order_id} = {}

\* C18: a PaymentDetected for a FAILED order changes nothing. No step of the
\* inline path for an order it read as FAILED, and no step of a worker for an
\* order that is FAILED, changes the orders table, the ledger, the dedupe
\* cache or payments_detected_total.
C18_FailedStaysFailed ==
  [][/\ \A h \in Slots :
          (/\ handlers[h].pc \in {"p_verify", "p_write"}
           /\ handlers'[h] # handlers[h]
           /\ handlers[h].status = "FAILED"
           /\ orders[handlers[h].OrderID].status = "FAILED")
          => /\ orders' = orders
             /\ ledger' = ledger
             /\ recentTx' = recentTx
             /\ paymentsDetectedTotal' = paymentsDetectedTotal
     /\ \A w \in Workers :
          (/\ workers[w].pc \in {"verify", "tx"}
           /\ workers'[w] # workers[w]
           /\ orders[workers[w].job.OrderID].status = "FAILED")
          => /\ orders' = orders
             /\ ledger' = ledger
             /\ recentTx' = recentTx
             /\ paymentsDetectedTotal' = paymentsDetectedTotal]_vars

\* C19: the dedupe cache is consulted before the enqueue. No job is enqueued
\* for a tx hash that (lowercased) was recorded in the dedupe cache less than
\* the dedupe window ago.
C19_DedupeBeforeEnqueue ==
  [][Len(verifyJobs') > Len(verifyJobs) =>
       LET job == verifyJobs'[Len(verifyJobs')] IN
         ~(/\ ToLower(job.TxHash) \in DOMAIN recentTx
           /\ now - recentTx[ToLower(job.TxHash)] < DedupeWindow)]_vars

C21_VerificationFailureNoEffect ==
  [][/\ \A w \in Workers :
          (workers[w].pc = "verify" /\ workers'[w] # workers[w])
          => /\ UNCHANGED << orders, ledger, verifyJobs, recentTx, paymentsDetectedTotal >>
             /\ IF VerifyBSCUSDTransfer(workers[w].job.TxHash, workers[w].merchantWalletAddress,
                                        workers[w].amountMinor, TRUE)
                THEN workers'[w].pc \in {"tx", "idle"}
                ELSE workers'[w] = Idle
     /\ \A h \in Slots :
          (handlers[h].pc = "p_verify" /\ handlers'[h] # handlers[h])
          => /\ UNCHANGED << orders, ledger, verifyJobs, paymentsDetectedTotal >>
             /\ handlers'[h].pc \in {"p_write", "idle"}
             /\ handlers'[h].pc = "p_write" =>
                  VerifyBSCUSDTransfer(handlers[h].TxHash, handlers[h].merchantWalletAddress,
                                       handlers[h].amountMinor, TRUE)
             /\ handlers'[h].pc = "idle" =>
                  /\ lastResp' = ErrResp("payment", 400, "onchain_verification_failed")
                  /\ recentTx' = recentTx]_vars

\* the inline path refused a transfer: the order named by the handler is
\* still PENDING, without tx_hash or ledger entry, and the cache is empty
C21_Witness ==
  /\ lastResp = ErrResp("payment", 400, "onchain_verification_failed")
  /\ recentTx = << >>
  /\ ledger = {}
  /\ DOMAIN orders # {}
  /\ \A o \in DOMAIN orders : orders[o].status = "PENDING" /\ orders[o].tx_hash = NULL

\* C22: verifier result. VerifyBSCUSDTransfer on a receipt succeeds if and
\* only if one single log is emitted by the token contract, is a Transfer
\* event (three topics, the signature hash first), has the destination as
\* its `to` topic, whatever the case of the destination's hex digits, and
\* carries exactly the expected amount.
C22_VerifierResult ==
  lastResp.op = "verify" =>
    (lastResp.ok <=>
       \E i \in 1..Len(lastResp.logs) :
         LET l == lastResp.logs[i] IN
           /\ l.address = HexToAddress(BSC_USD_ADDRESS)
           /\ Len(l.topics) = 3
           /\ l.topics[1] = transferSig
           /\ l.topics[3] = (IF lastResp.destAddress \in {"w1", "W1"} THEN "w1" ELSE "w2")
           /\ l.data = lastResp.expectedAmount)

\* two transfers of the token to the destination that add up to the expected
\* amount were refused
C22_Witness ==
  /\ lastResp.op = "verify"
  /\ ~lastResp.ok
  /\ lastResp.destAddress = "W1"
  /\ lastResp.expectedAmount = 3
  /\ lastResp.logs = << Log(HexToAddress(BSC_USD_ADDRESS), << transferSig, "payer", "w1" >>, 1),
                        Log(HexToAddress(BSC_USD_ADDRESS), << transferSig, "payer", "w1" >>, 2) >>

\* C23: verifier concurrency cap. At any time the verifier RPC calls in
\* progress, of all workers and all inline handlers together, are at most
\* the capacity of the verifier's semaphore.
C23_VerifierCap == RpcSemHolders <= rpcVerifySemCap

\* the cap is reached while another caller, holding a slot of the api
\* semaphore, waits for the verifier's semaphore
C23_Witness ==
  /\ RpcSemHolders = rpcVerifySemCap
  /\ \/ \E w \in Workers : workers[w].pc = "v_api"
     \/ \E h \in Slots : handlers[h].pc = "p_api"

\* C24: counters are incremented atomically. Whenever no handler is between
\* its commit and its counter increment, orders_created_total is the number
\* of orders created and refunds_processed_total the number of orders with a
\* refund posted; payments_detected_total is the number of orders with a
\* payment applied.
C24_CountersExact ==
  /\ (\A h \in Slots : handlers[h].pc # "c_count")
       => ordersCreatedTotal = Cardinality(DOMAIN orders)
  /\ (\A h \in Slots : handlers[h].pc # "r_count")
       => refundsProcessedTotal = Cardinality({o \in DOMAIN orders : EntriesOf(o, refundEvent) # {}})
  /\ paymentsDetectedTotal = Cardinality({o \in DOMAIN orders : orders[o].tx_hash # NULL})

\* C25: amounts are arbitrary-precision integers. A Refund of a PAID order
\* is never refused because the amount of the order does not fit a 64-bit
\* integer, no reconciliation fails on the conversion of a balance, and a
\* reported merchant balance is the exact signed sum of the ledger.
C25_ArbitraryPrecision ==
  /\ [][\A h \in Slots :
          (/\ handlers[h].pc = "r_begin"
           /\ handlers'[h].pc # "r_begin"
           /\ handlers[h].orderID \in DOMAIN orders
           /\ orders[handlers[h].orderID].status = "PAID")
          => lastResp' # ErrResp("refund", 500, "converting amount_minor to int64")]_vars
  /\ [](lastResp # ErrResp("reconciliation", 500, "converting balance to int64"))
  /\ []((lastResp.op = "reconciliation" /\ lastResp.code = 200)
          => lastResp.merchant_balance_minor
               = Balance(lastResp.merchant_id, lastResp.asset, bucketMerchant))

\* C26: in every state an order's paid_at is set exactly when its status is
\* PAID, SETTLED or REFUNDED, and its transaction id is then set as well.
C26_PaidAtIffPaid ==
  \A o \in DOMAIN orders :
    /\ orders[o].paid_at # NullTime <=> orders[o].status \in {"PAID", "SETTLED", "REFUNDED"}
    /\ orders[o].paid_at # NullTime => orders[o].tx_hash # NULL

\* C27: order idempotency keys are scoped per merchant. When CreateOrder
\* reaches its insert for a known merchant that has no order with the key,
\* a new PENDING order of that merchant is created, whoever else used the
\* key; and a successful response never names another merchant's order.
C27_KeyPerMerchant ==
  /\ [][\A h \in Slots :
          (/\ handlers[h].pc = "c_insert"
           /\ handlers'[h].pc # "c_insert"
           /\ handlers[h].req.merchant_id \in DOMAIN merchants
           /\ SelByKey(handlers[h].req.idempotency_key, handlers[h].req.merchant_id) = {})
          => \E o \in DOMAIN orders' \ DOMAIN orders :
               /\ orders'[o].merchant_id = handlers[h].req.merchant_id
               /\ orders'[o].order_idempotency_key = handlers[h].req.idempotency_key
               /\ orders'[o].status = "PENDING"]_vars
  /\ []((lastResp.op = "create" /\ lastResp.code = 200)
          => orders[lastResp.order_id].merchant_id = lastResp.merchant_id)

\* C28: concurrent duplicate refunds converge on the idempotent success.
\* When a Refund of a paid order that passed the key lookup comes to its
\* writes and the order already carries its refund key (the other request
\* committed first), it writes nothing and answers the success response
\* REFUNDED.
C28_DuplicateRefundsConverge ==
  [][\A h \in Slots :
       (/\ handlers[h].pc = "r_write"
        /\ handlers'[h].pc # "r_write"
        /\ orders[handlers[h].orderID].status = "REFUNDED"
        /\ orders[handlers[h].orderID].paid_at # NullTime
        /\ orders[handlers[h].orderID].refund_idempotency_key = handlers[h].key)
       => /\ ledger' = ledger
          /\ lastResp'.op = "refund"
          /\ lastResp'.code = 200
          /\ lastResp'.status = "REFUNDED"]_vars

\* C29: liveness of the pipeline under fair workers. Every job in the queue
\* is eventually taken, and a job that passed verification for an order
\* that is PENDING ends with the order PAID with its ledger pair (unless
\* another order took the transaction first).
C29_PipelineLive ==
  /\ (verifyJobs # << >>) ~> (verifyJobs = << >>)
  /\ \A w \in Workers, o \in OrderIds, tx \in TxHashes :
       (/\ workers[w].pc = "tx"
        /\ workers[w].job.OrderID = o
        /\ workers[w].job.TxHash = tx
        /\ orders[o].status = "PENDING"
        /\ ~TxHashTaken(orders, o, tx))
       ~> (/\ o \in DOMAIN orders
           /\ \/ orders[o].status = "PAID" /\ HasPaymentPair(o)
              \/ TxHashTaken(orders, o, tx))

\* C30: the inline fallback and the worker path are equivalent. From every
\* state, for every order, transaction and verifier answer, the submission
\* (without an amount in its body) processed inline and processed as a job
\* leaves the same orders, ledger, dedupe cache and counter.
C30_InlineEqualsWorker ==
  \A o \in DOMAIN orders, tx \in TxHashes, rpcOk \in BOOLEAN :
    InlineOutcome(o, tx, rpcOk, << >>) = WorkerOutcome(o, tx, rpcOk)

\* C31: the dedupe cache is written only after the PAID transition has
\* committed. In every state a transaction id in the dedupe cache is the
\* transaction id stored on some order.
C31_CacheAfterCommit ==
  \A k \in DOMAIN recentTx :
    \E o \in DOMAIN orders : orders[o].tx_hash # NULL /\ ToLower(orders[o].tx_hash) = k

\* C32: processing skips orders that are already terminal before verifying.
\* A worker never goes on to the verifier with a job whose order it loaded
\* as SETTLED, REFUNDED or FAILED, and no inline handler is about to call
\* the verifier for an order it loaded in one of these statuses.
C32_NoVerifyForTerminal ==
  /\ [][\A w \in Workers :
          (workers[w].pc = "idle" /\ workers'[w].pc = "verify")
          => orders[workers'[w].job.OrderID].status \notin {"SETTLED", "REFUNDED", "FAILED"}]_vars
  /\ [](\A h \in Slots :
          handlers[h].pc = "p_verify" => handlers[h].status \notin {"SETTLED", "REFUNDED", "FAILED"})

\* C33: concurrent confirmations of one order serialize. The transaction id
\* of an order, once set, stays; every PAYMENT_CONFIRMED entry of the order
\* carries it and there is one pair; payments_detected_total counts the
\* applied transitions; and a worker or an inline handler that loaded the
\* order as PENDING and comes to its transaction after another confirmation
\* was committed has changed nothing when it ends: the database and the
\* counter are as the winner left them and the dedupe cache holds no
\* transaction id of the loser.
C33_ConfirmationsSerialize ==
  /\ [](\A o \in DOMAIN orders :
          /\ \A e \in EntriesOf(o, eventPaymentConfirmed) : e.tx_hash = orders[o].tx_hash
          /\ orders[o].tx_hash # NULL => HasPaymentPair(o))
  /\ [](paymentsDetectedTotal = Cardinality({o \in DOMAIN orders : orders[o].tx_hash # NULL}))
  /\ [][\A o \in DOMAIN orders :
          orders[o].tx_hash # NULL => orders'[o].tx_hash = orders[o].tx_hash]_vars
  /\ [][\A w \in Workers :
          (/\ workers[w].pc = "tx"
           /\ workers'[w].pc # "tx"
           /\ orders[workers[w].job.OrderID].status \notin {"PENDING", "CONFIRMING"})
          => UNCHANGED << orders, ledger, recentTx, paymentsDetectedTotal >>]_vars
  /\ [][\A h \in Slots :
          (/\ handlers[h].pc = "p_write"
           /\ handlers'[h].pc # "p_write"
           /\ handlers[h].status = "PENDING"
           /\ orders[handlers[h].OrderID].tx_hash \notin {NULL, handlers[h].TxHash})
          => /\ UNCHANGED << orders, ledger, paymentsDetectedTotal >>
             /\ ToLower(handlers[h].TxHash) \in DOMAIN recentTx'
                  => \E o \in DOMAIN orders :
                       orders[o].tx_hash # NULL
                       /\ ToLower(orders[o].tx_hash) = ToLower(handlers[h].TxHash)]_vars

\* C34: the ledger is append-only. No step removes or changes a ledger
\* entry: every entry of the ledger is in the ledger after the step.
C34_LedgerAppendOnly == [][ledger \subseteq ledger']_vars

\* a refunded order with its two pairs in the ledger, and an order settled
\* by the sweeper with its payment pair still there
C34_Witness ==
  /\ \E o \in DOMAIN orders :
       /\ orders[o].status = "SETTLED"
       /\ HasPaymentPair(o)
  /\ \E o \in DOMAIN orders :
       /\ HasPaymentPair(o)
       /\ EntriesOf(o, refundEvent) # {}

\* C35: settlement and timeout are status-only transitions. A step of the
\* settlement sweeper or of the timeout sweeper leaves the ledger, the
\* dedupe cache, the counters and the set of orders unchanged, and changes
\* no field of an order but the status.
C35_SweepsStatusOnly ==
  [][(settler' # settler \/ expirer' # expirer)
     => /\ UNCHANGED << ledger, recentTx, paymentsDetectedTotal, ordersCreatedTotal,
                        refundsProcessedTotal, verifyJobs >>
        /\ DOMAIN orders' = DOMAIN orders
        /\ \A o \in DOMAIN orders :
             orders'[o] = [orders[o] EXCEPT !.status = orders'[o].status]]_vars

\* the settlement sweeper has settled a paid order and the timeout sweeper
\* has failed an unpaid one
C35_Witness ==
  /\ \E o \in DOMAIN orders :
       /\ orders[o].status = "SETTLED"
       /\ orders[o].tx_hash # NULL
       /\ orders[o].paid_at # NullTime
       /\ HasPaymentPair(o)
  /\ \E o \in DOMAIN orders : orders[o].status = "FAILED"

\* C36: confirmations of different orders do not interfere. When a worker
\* runs its transaction for a PENDING order with a transaction id no other
\* order carries, in the same clock instant in which another order was made
\* PAID, the order becomes PAID and gets its own PAYMENT_CONFIRMED pair.
C36_NoLedgerIdCollision ==
  [][\A w \in Workers :
       (/\ workers[w].pc = "tx"
        /\ workers'[w].pc # "tx"
        /\ orders[workers[w].job.OrderID].status = "PENDING"
        /\ ~TxHashTaken(orders, workers[w].job.OrderID, workers[w].job.TxHash)
        /\ \E p \in DOMAIN orders :
             /\ p # workers[w].job.OrderID
             /\ orders[p].status = "PAID"
             /\ orders[p].paid_at = now)
       => /\ orders'[workers[w].job.OrderID].status = "PAID"
          /\ Cardinality({e \in ledger' : /\ e.order_id = workers[w].job.OrderID
                                          /\ e.event_type = eventPaymentConfirmed}) = 2]_vars

\* C37: one on-chain transaction pays at most one order, whatever the letter
\* case of its identifier. No step moves a PENDING order to PAID with a
\* transaction id that differs only in letter case from the one that paid
\* another order of the same merchant and amount.
C37_CaseVariantPaysOnce ==
  [][\A a \in DOMAIN orders, b \in DOMAIN orders :
       (/\ a # b
        /\ orders[a].tx_hash # NULL
        /\ orders[a].merchant_id = orders[b].merchant_id
        /\ orders[a].amount_minor = orders[b].amount_minor
        /\ orders[b].status = "PENDING"
        /\ orders'[b].status = "PAID")
       => \/ ToLower(orders'[b].tx_hash) # ToLower(orders[a].tx_hash)
          \/ orders'[b].tx_hash = orders[a].tx_hash]_vars

\* C38: responses agree with stored state. Whenever PaymentDetected answers
\* with status PAID for an order, the stored status of that order is PAID,
\* SETTLED or REFUNDED.
C38_PaidResponseAgrees ==
  (lastResp.op = "payment" /\ lastResp.code = 200 /\ lastResp.status = "PAID")
    => orders[lastResp.order_id].status \in {"PAID", "SETTLED", "REFUNDED"}

\* C39: a verified payment is not lost to the processor's own deadline.
\* When a worker or an inline handler comes out of a verification that
\* returned verified within the RPC budget, and its transaction would apply
\* on the database as it is, the order is PAID after its step.
C39_VerifiedNotLostToDeadline ==
  /\ [][\A w \in Workers :
          (/\ workers[w].pc = "tx"
           /\ workers'[w].pc # "tx"
           /\ "elapsed" \in DOMAIN workers[w]
           /\ workers[w].elapsed <= RpcTimeout
           /\ PaymentTx(orders, ledger, workers[w].job.OrderID, workers[w].job.TxHash,
                        workers[w].merchantID, workers[w].asset, workers[w].amountMinor,
                        now).outcome = "applied")
          => orders'[workers[w].job.OrderID].status = "PAID"]_vars
  /\ [][\A h \in Slots :
          (/\ handlers[h].pc = "p_write"
           /\ handlers'[h].pc # "p_write"
           /\ "elapsed" \in DOMAIN handlers[h]
           /\ handlers[h].elapsed <= RpcTimeout
           /\ handlers[h].snapshot = dbVersion
           /\ PaymentTx(orders, ledger, handlers[h].OrderID, handlers[h].TxHash,
                        handlers[h].merchantID, handlers[h].asset, handlers[h].amountMinor,
                        now).outcome = "applied")
          => orders'[handlers[h].OrderID].status = "PAID"]_vars

\* verifications in progress: callers between taking the slot of the api
\* semaphore and the return of the verifier
VerificationsInProgress ==
  Cardinality({w \in Workers : workers[w].pc \in {"v_api", "v_rpc"}})
  + Cardinality({h \in Slots : handlers[h].pc \in {"p_api", "p_rpc"}})

\* somebody waits for a slot that is not free
PermitWaiter ==
  \/ \E w \in Workers : \/ workers[w].pc = "verify" /\ ~ApiSemFree
                        \/ workers[w].pc = "v_api" /\ ~RpcSemFree
  \/ \E h \in Slots : \/ handlers[h].pc = "p_verify" /\ ~ApiSemFree
                      \/ handlers[h].pc = "p_api" /\ ~RpcSemFree

\* a step that gives a slot back, or takes the slot a holder waits for
PermitStep ==
  \/ \E w \in Workers, rpcOk \in BOOLEAN : WorkerRpcReturn(w, rpcOk)
  \/ \E h \in Slots, rpcOk \in BOOLEAN : InlineRpcReturn(h, rpcOk)
  \/ \E h \in Slots, AmountMinor \in OptAmounts, dbOk \in BOOLEAN :
       "sem" \in DOMAIN handlers[h] /\ InlineWrite(h, AmountMinor, dbOk)
  \/ \E w \in Workers : WorkerRpcAcquire(w)
  \/ \E h \in Slots : InlineRpcAcquire(h)

\* C40: semaphore permits are conserved and never deadlock. The permits
\* held of the handler-level semaphore and of the RPC semaphore equal the
\* number of verifications in progress, and whenever somebody waits for a
\* permit a holder can go on.
C40_PermitsEqualVerifications ==
  /\ verifySem.api = VerificationsInProgress
  /\ verifySem.rpc = RpcSemHolders
  /\ PermitWaiter => ENABLED PermitStep

====
